---- MODULE Spec2Model ----
(***************************************************************************)
(* A model of the conversation graph of bevy_screenplay:                   *)
(*   - Conversation::new (src/src/conversation.rs) compiles a RawTalk (a   *)
(*     talker list and an ordered list of dialogue lines) into a directed  *)
(*     graph with a cursor, or fails with a ConversationError;             *)
(*   - the traversal requests advance and jump_to move the cursor.         *)
(*                                                                         *)
(* Encoding.  Option<T>: None is the empty tuple, Some(x) is <<x>>.        *)
(* A NodeIndex is a natural number counted from 0, as in petgraph; the     *)
(* node with index i is nodes[i + 1].  An error value is a tuple whose     *)
(* first element is the variant's name, followed by its arguments.         *)
(* A Result is <<"Ok", value>> or <<"Err", error>>.                        *)
(***************************************************************************)
EXTENDS Integers, Sequences, FiniteSets, TLC

(***************************************************************************)
(* Bounds of the checked input space.                                      *)
(***************************************************************************)
\* longest line list whose lines range over every field combination
MaxLines == 2
\* longest line list whose lines have neither `next` nor choices
MaxPlainLines == 3
\* line ids are 1..MaxId; link targets are 1..MaxId+1, so that some target
\* is always the id of no line
MaxId == 2
\* longest choice list of a line
MaxChoices == 1
\* longest choice list of a line of a branching script (see BranchFamily)
MaxBranchChoices == 2

None == <<>>
Some(x) == <<x>>

LineIds == 1 .. MaxId
TargetIds == 1 .. (MaxId + 1)

(***************************************************************************)
(* The script model (RawTalk, Talker, DialogueLine, Choice).               *)
(***************************************************************************)
Talker(name, asset) == [name |-> name, asset |-> asset]

\* The talker lists of the checked scripts: none, one that lacks "Alice",
\* and one that names "Alice" twice with different assets.
TalkerLists ==
    { <<>>,
      << Talker("Bob", "bob.png") >>,
      << Talker("Alice", "alice.png"), Talker("Alice", "alice2.png") >> }

Choice(next) == [text |-> "Choice", next |-> next]

RECURSIVE SeqsUpTo(_, _)
SeqsUpTo(S, n) ==
    IF n = 0 THEN { <<>> }
    ELSE LET shorter == SeqsUpTo(S, n - 1)
         IN  shorter \cup { Append(s, x) : s \in { t \in shorter : Len(t) = n - 1 }, x \in S }

ChoiceLists == SeqsUpTo({ Choice(t) : t \in TargetIds }, MaxBranchChoices)

OptTalker == { None, Some("Alice") }
OptStart == { None, Some(TRUE), Some(FALSE) }
OptNext == { None } \cup { Some(t) : t \in TargetIds }
OptChoices == { None } \cup { Some(cs) : cs \in ChoiceLists }
OptEnd == { None, Some(TRUE) }

\* The field combinations of one line; the text is set by LineText below.
LineShapes ==
    [id : LineIds, talker : OptTalker, choices : OptChoices,
     next : OptNext, start : OptStart, end : OptEnd]

\* The k-th line of a script carries the k-th of a family of distinct texts.
LineText(k) == "text" \o ToString(k)

IsPlain(l) == l.next = None /\ l.choices = None

ChoiceCount(l) == IF l.choices = None THEN 0 ELSE Len(l.choices[1])

\* A line of a script without talkers, in which no line says start: false.
IsBare(l) == l.talker = None /\ l.start # Some(FALSE)

\* The checked scripts come in four families of lines:
\*   every field combination but `end`, with short choice lists;
FullLine(l) == l.end = None /\ ChoiceCount(l) <= MaxChoices
\*   lines linked to no other (of these a script may hold more);
PlainLine(l) == l.end = None /\ IsPlain(l)
\*   longer choice lists, in scripts without talkers;
BranchLine(l) == l.end = None /\ IsBare(l)
\*   lines with an `end` flag, in scripts without talkers.
EndLine(l) == IsBare(l) /\ ChoiceCount(l) <= MaxChoices

FullFamily(t) ==
    Len(t.lines) <= MaxLines /\ \A k \in DOMAIN t.lines : FullLine(t.lines[k])
PlainFamily(t) ==
    Len(t.lines) <= MaxPlainLines /\ \A k \in DOMAIN t.lines : PlainLine(t.lines[k])
BranchFamily(t) ==
    /\ Len(t.lines) <= MaxLines
    /\ t.talkers = <<>>
    /\ \A k \in DOMAIN t.lines : BranchLine(t.lines[k])
EndFamily(t) ==
    /\ Len(t.lines) <= MaxLines
    /\ t.talkers = <<>>
    /\ \A k \in DOMAIN t.lines : EndLine(t.lines[k])

\* The script with every `end` flag cleared.
WithoutEnd(t) ==
    [t EXCEPT !.lines = [k \in DOMAIN t.lines |-> [t.lines[k] EXCEPT !.end = None]]]

DialogueLine(shape, k) ==
    [id |-> shape.id, text |-> LineText(k), talker |-> shape.talker,
     choices |-> shape.choices, next |-> shape.next, start |-> shape.start,
     end |-> shape.end]

FullShapes == { s \in LineShapes : FullLine(s) }
PlainShapes == { s \in LineShapes : PlainLine(s) }
BranchShapes == { s \in LineShapes : BranchLine(s) }
EndShapes == { s \in LineShapes : EndLine(s) }

\* The script with one more line of the given shape.
Extended(t, shape) ==
    [t EXCEPT !.lines = Append(@, DialogueLine(shape, Len(t.lines) + 1))]

(***************************************************************************)
(* Results and errors (ConversationError, NextActionError).                *)
(***************************************************************************)
Ok(v) == << "Ok", v >>
Err(e) == << "Err", e >>
IsOk(r) == r[1] = "Ok"
IsErr(r) == r[1] = "Err"

NoLines == << "NoLines" >>
TalkerNotFound(id, name) == << "TalkerNotFound", id, name >>
NextLineNotFound(id, next) == << "NextLineNotFound", id, next >>
RepeatedId(id) == << "RepeatedId", id >>
NoStartingDialogue == << "NoStartingDialogue" >>
MultipleStartingDialogues == << "MultipleStartingDialogues" >>

NoNextAction == << "NoNextAction" >>
ChoicesNotHandled == << "ChoicesNotHandled" >>
WrongJump(id) == << "WrongJump", id >>

(***************************************************************************)
(* Conversation::new, node phase.                                          *)
(***************************************************************************)
EmptyMap == [x \in {} |-> x]

\* name => talker; a later entry of the list overwrites an earlier one
talker_map(talkers) ==
    [n \in { talkers[i].name : i \in DOMAIN talkers } |->
        talkers[CHOOSE i \in DOMAIN talkers :
                    /\ talkers[i].name = n
                    /\ \A j \in DOMAIN talkers : talkers[j].name = n => j <= i]]

\* Variant: a line that has a `next` gets a node without choices.
DialogueNode_NextDropsChoices(dline, tmap) ==
    [text |-> dline.text,
     talker |-> IF dline.talker = None THEN None ELSE Some(tmap[dline.talker[1]]),
     choices |-> IF dline.next # None THEN None ELSE dline.choices]

DialogueNode(dline, tmap) ==
    [text |-> dline.text,
     talker |-> IF dline.talker = None THEN None ELSE Some(tmap[dline.talker[1]]),
     choices |-> dline.choices]

DLineStripped(dline) ==
    [id |-> dline.id, choices |-> dline.choices, next |-> dline.next]

\* Variant: the start index is taken to be the first node.
StartIndex_FirstNode(dline, node_idx, first_line) ==
    IF dline.start = Some(TRUE) THEN Some(0) ELSE first_line

\* Variant: the start index is off by one.
StartIndex_OffByOne(dline, node_idx, first_line) ==
    IF dline.start = Some(TRUE) THEN Some(node_idx + 1) ELSE first_line

\* first_line = Some(node_idx) of a line marked start
StartIndex(dline, node_idx, first_line) ==
    IF dline.start = Some(TRUE) THEN Some(node_idx) ELSE first_line

\* The loop's state after the line's node was added and tracked.
NodeAdded(dline, tmap, st) ==
    [nodes |-> Append(st.nodes, DialogueNode(dline, tmap)),
     first_line |-> StartIndex(dline, Len(st.nodes), st.first_line),
     map |-> (dline.id :> [idx |-> Len(st.nodes), line |-> DLineStripped(dline)])
             @@ st.map]

\* Variant: a talker that is not in the map is taken as no talker.
AddNode_NoTalkerCheck(dline, tmap, st) ==
    LET known == IF dline.talker # None /\ dline.talker[1] \notin DOMAIN tmap
                 THEN [dline EXCEPT !.talker = None] ELSE dline
    IN  IF dline.start = Some(TRUE) /\ st.first_line # None
        THEN Err(MultipleStartingDialogues)
        ELSE IF dline.id \in DOMAIN st.map
        THEN Err(RepeatedId(dline.id))
        ELSE Ok(NodeAdded(known, tmap, st))

\* Variant: a later line marked start replaces the recorded one.
AddNode_NoMultipleCheck(dline, tmap, st) ==
    IF dline.talker # None /\ dline.talker[1] \notin DOMAIN tmap
    THEN Err(TalkerNotFound(dline.id, dline.talker[1]))
    ELSE IF dline.id \in DOMAIN st.map
    THEN Err(RepeatedId(dline.id))
    ELSE Ok(NodeAdded(dline, tmap, st))

\* Variant: a line with the id of an earlier line replaces it in the map.
AddNode_NoRepeatCheck(dline, tmap, st) ==
    IF dline.talker # None /\ dline.talker[1] \notin DOMAIN tmap
    THEN Err(TalkerNotFound(dline.id, dline.talker[1]))
    ELSE IF dline.start = Some(TRUE) /\ st.first_line # None
    THEN Err(MultipleStartingDialogues)
    ELSE Ok(NodeAdded(dline, tmap, st))

\* Variant: the node index of a line is taken to be its id less one, the
\* index it has when the ids count up from 1 in list order.
AddNode_IndexFromId(dline, tmap, st) ==
    IF dline.talker # None /\ dline.talker[1] \notin DOMAIN tmap
    THEN Err(TalkerNotFound(dline.id, dline.talker[1]))
    ELSE IF dline.start = Some(TRUE) /\ st.first_line # None
    THEN Err(MultipleStartingDialogues)
    ELSE IF dline.id \in DOMAIN st.map
    THEN Err(RepeatedId(dline.id))
    ELSE Ok([nodes |-> Append(st.nodes, DialogueNode(dline, tmap)),
             first_line |-> StartIndex(dline, Len(st.nodes), st.first_line),
             map |-> st.map @@
                     (dline.id :> [idx |-> dline.id - 1,
                                   line |-> DLineStripped(dline)])])

\* Variant: the map of the lines is keyed by node index instead of line id.
AddNode_KeyIsIndex(dline, tmap, st) ==
    IF dline.talker # None /\ dline.talker[1] \notin DOMAIN tmap
    THEN Err(TalkerNotFound(dline.id, dline.talker[1]))
    ELSE IF dline.start = Some(TRUE) /\ st.first_line # None
    THEN Err(MultipleStartingDialogues)
    ELSE IF dline.id \in DOMAIN st.map
    THEN Err(RepeatedId(dline.id))
    ELSE Ok([nodes |-> Append(st.nodes, DialogueNode(dline, tmap)),
             first_line |-> StartIndex(dline, Len(st.nodes), st.first_line),
             map |-> st.map @@
                     (Len(st.nodes) :> [idx |-> Len(st.nodes),
                                        line |-> DLineStripped(dline)])])

\* Variant: the id is checked before the start flag.
AddNode_RepeatBeforeStart(dline, tmap, st) ==
    IF dline.talker # None /\ dline.talker[1] \notin DOMAIN tmap
    THEN Err(TalkerNotFound(dline.id, dline.talker[1]))
    ELSE IF dline.id \in DOMAIN st.map
    THEN Err(RepeatedId(dline.id))
    ELSE IF dline.start = Some(TRUE) /\ st.first_line # None
    THEN Err(MultipleStartingDialogues)
    ELSE Ok(NodeAdded(dline, tmap, st))

\* Variant: a line with any start flag, start: false too, is a start line.
AddNode_AnyStartFlag(dline, tmap, st) ==
    IF dline.talker # None /\ dline.talker[1] \notin DOMAIN tmap
    THEN Err(TalkerNotFound(dline.id, dline.talker[1]))
    ELSE IF dline.start # None /\ st.first_line # None
    THEN Err(MultipleStartingDialogues)
    ELSE IF dline.id \in DOMAIN st.map
    THEN Err(RepeatedId(dline.id))
    ELSE Ok([nodes |-> Append(st.nodes, DialogueNode(dline, tmap)),
             first_line |-> IF dline.start # None THEN Some(Len(st.nodes))
                            ELSE st.first_line,
             map |-> st.map @@
                     (dline.id :> [idx |-> Len(st.nodes),
                                   line |-> DLineStripped(dline)])])

\* One iteration of the loop over talk.lines.  st is the loop's state: the
\* graph's nodes, first_line and nodeidx_dialogue_map.
AddNode(dline, tmap, st) ==
    IF dline.talker # None /\ dline.talker[1] \notin DOMAIN tmap
    THEN Err(TalkerNotFound(dline.id, dline.talker[1]))
    ELSE LET node_idx == Len(st.nodes)
         IN  IF dline.start = Some(TRUE) /\ st.first_line # None
             THEN Err(MultipleStartingDialogues)
             ELSE IF dline.id \in DOMAIN st.map
             THEN Err(RepeatedId(dline.id))
             ELSE Ok([nodes |-> Append(st.nodes, DialogueNode(dline, tmap)),
                      first_line |-> StartIndex(dline, node_idx, st.first_line),
                      map |-> st.map @@
                              (dline.id :> [idx |-> node_idx,
                                            line |-> DLineStripped(dline)])])

RECURSIVE AddNodes(_, _, _, _)
AddNodes(lines, tmap, k, st) ==
    IF k > Len(lines) THEN Ok(st)
    ELSE LET r == AddNode(lines[k], tmap, st)
         IN  IF IsErr(r) THEN r ELSE AddNodes(lines, tmap, k + 1, r[2])

\* The node phase and the check for a start line that follows it.
NodePhase(talk) ==
    LET r == AddNodes(talk.lines, talker_map(talk.talkers), 1,
                      [nodes |-> <<>>, first_line |-> None, map |-> EmptyMap])
    IN  IF IsErr(r) THEN r
        ELSE IF r[2].first_line = None THEN Err(NoStartingDialogue)
        ELSE r

(***************************************************************************)
(* Conversation::new, edge phase.                                          *)
(***************************************************************************)
\* Variant: the edge of a `next` is added like the edge of a choice.
NextEdge_SelfLoop(current_node_idx, next_node_idx) ==
    << current_node_idx, current_node_idx >>

\* The edge added for a `next` that resolves.
NextEdge(current_node_idx, next_node_idx) == << current_node_idx, next_node_idx >>

\* The edge added for a choice that resolves.
ChoiceEdge(current_node_idx, choice_node_idx) == << current_node_idx, current_node_idx >>

\* Variant: the edge of a choice is added only if the graph lacks it.
RECURSIVE ChoiceEdges_UpdateEdge(_, _, _, _, _)
ChoiceEdges_UpdateEdge(map, entry, choices, k, edges) ==
    IF k > Len(choices) THEN Ok(edges)
    ELSE IF choices[k].next \in DOMAIN map
    THEN LET e == ChoiceEdge(entry.idx, map[choices[k].next].idx)
         IN  ChoiceEdges_UpdateEdge(map, entry, choices, k + 1,
                 IF \E j \in DOMAIN edges : edges[j] = e THEN edges
                 ELSE Append(edges, e))
    ELSE Err(NextLineNotFound(entry.line.id, choices[k].next))

RECURSIVE ChoiceEdges(_, _, _, _, _)
ChoiceEdges(map, entry, choices, k, edges) ==
    IF k > Len(choices) THEN Ok(edges)
    ELSE IF choices[k].next \in DOMAIN map
    THEN ChoiceEdges(map, entry, choices, k + 1,
                     Append(edges, ChoiceEdge(entry.idx, map[choices[k].next].idx)))
    ELSE Err(NextLineNotFound(entry.line.id, choices[k].next))

\* Variant: a `next` that is not in the map adds no edge and is no error.
LineEdges_IgnoreMissingNext(map, entry, edges) ==
    IF entry.line.next # None
    THEN LET next_id == entry.line.next[1]
         IN  IF next_id \in DOMAIN map
             THEN Ok(Append(edges, << entry.idx, map[next_id].idx >>))
             ELSE Ok(edges)
    ELSE IF entry.line.choices # None
    THEN ChoiceEdges(map, entry, entry.line.choices[1], 1, edges)
    ELSE Ok(edges)

\* A variant in which a line with neither `next` nor choices points to the
\* line that comes right after it in the list.
LineEdges_TerminalFallsThrough(map, entry, edges) ==
    IF entry.line.next # None
    THEN LET next_id == entry.line.next[1]
         IN  IF next_id \in DOMAIN map
             THEN Ok(Append(edges, NextEdge(entry.idx, map[next_id].idx)))
             ELSE Err(NextLineNotFound(entry.line.id, next_id))
    ELSE IF entry.line.choices # None
    THEN ChoiceEdges(map, entry, entry.line.choices[1], 1, edges)
    ELSE IF entry.idx + 1 < Cardinality(DOMAIN map)
    THEN Ok(Append(edges, NextEdge(entry.idx, entry.idx + 1)))
    ELSE Ok(edges)

\* One iteration of the loop over nodeidx_dialogue_map.values(): the graph's
\* edges after the entry's edges were added, or the error.
LineEdges(map, entry, edges) ==
    IF entry.line.next # None
    THEN LET next_id == entry.line.next[1]
         IN  IF next_id \in DOMAIN map
             THEN Ok(Append(edges, NextEdge(entry.idx, map[next_id].idx)))
             ELSE Err(NextLineNotFound(entry.line.id, next_id))
    ELSE IF entry.line.choices # None
    THEN ChoiceEdges(map, entry, entry.line.choices[1], 1, edges)
    ELSE Ok(edges)

\* order is the sequence of keys in which the hash map yields its values.
RECURSIVE AddEdges(_, _, _, _)
AddEdges(map, order, k, edges) ==
    IF k > Len(order) THEN Ok(edges)
    ELSE LET r == LineEdges(map, map[order[k]], edges)
         IN  IF IsErr(r) THEN r ELSE AddEdges(map, order, k + 1, r[2])

\* The iteration order of a hash map is not specified: any order of its keys.
IterationOrders(keys) ==
    { o \in [1 .. Cardinality(keys) -> keys] :
        \A i, j \in 1 .. Cardinality(keys) : o[i] = o[j] => i = j }

\* The orders in which a compilation of talk can visit the lines for edges.
EdgeOrders(talk) ==
    IF Len(talk.lines) = 0 \/ IsErr(NodePhase(talk)) THEN { <<>> }
    ELSE IterationOrders(DOMAIN NodePhase(talk)[2].map)

\* Variant: an empty line list is not checked for.
New_SkipsEmptyCheck(talk, order) ==
    LET np == NodePhase(talk)
    IN  IF IsErr(np) THEN np
        ELSE LET ep == AddEdges(np[2].map, order, 1, <<>>)
             IN  IF IsErr(ep) THEN ep
                 ELSE Ok([dialogue_graph |-> [nodes |-> np[2].nodes, edges |-> ep[2]],
                          current |-> np[2].first_line[1]])

\* Conversation::new(talk), the hash map iterating in `order`.
New(talk, order) ==
    IF Len(talk.lines) = 0 THEN Err(NoLines)
    ELSE LET np == NodePhase(talk)
         IN  IF IsErr(np) THEN np
             ELSE LET ep == AddEdges(np[2].map, order, 1, <<>>)
                  IN  IF IsErr(ep) THEN ep
                      ELSE Ok([dialogue_graph |-> [nodes |-> np[2].nodes, edges |-> ep[2]],
                               current |-> np[2].first_line[1]])

current_text(convo) == convo.dialogue_graph.nodes[convo.current + 1].text

(***************************************************************************)
(* Traversal: advance and jump_to.  These requests are described by the    *)
(* specification (section 4.3); the source declares only their errors.     *)
(***************************************************************************)
\* The table author id => node index that jump_to resolves ids against.
IdTable(talk) ==
    LET map == NodePhase(talk)[2].map
    IN  [id \in DOMAIN map |-> map[id].idx]

IsChoiceNode(convo) ==
    convo.dialogue_graph.nodes[convo.current + 1].choices # None

\* The targets of the edges that leave the current node.
OutTargets(convo) ==
    LET edges == convo.dialogue_graph.edges
    IN  { edges[k][2] : k \in { j \in DOMAIN edges : edges[j][1] = convo.current } }

\* advance(): the outcomes << result, conversation afterwards >>.
advance(convo) ==
    IF IsChoiceNode(convo) THEN { << Err(ChoicesNotHandled), convo >> }
    ELSE IF OutTargets(convo) = {} THEN { << Err(NoNextAction), convo >> }
    ELSE { << Ok(<<>>), [convo EXCEPT !.current = t] >> : t \in OutTargets(convo) }

\* jump_to(id): << result, conversation afterwards >>.
jump_to(convo, table, id) ==
    IF id \in DOMAIN table
    THEN << Ok(<<>>), [convo EXCEPT !.current = table[id]] >>
    ELSE << Err(WrongJump(id)), convo >>

(***************************************************************************)
(* The state.                                                              *)
(***************************************************************************)
VARIABLES
    talk,           \* the RawTalk handed to Conversation::new
    pc,             \* "loading", then "compiled" or "failed"
    result,         \* the Result of Conversation::new; None before the call
    again,          \* Some(Result of a second call on the same talk), or None
    endless,        \* Some(Result of a call on the talk without its `end`
                    \* flags), or None
    id_to_nodeidx,  \* the id table of the compiled Conversation
    last            \* Some(the last traversal request: req, res, and the
                    \* cursor `from` which it started), or None

vars == << talk, pc, result, again, endless, id_to_nodeidx, last >>

Init ==
    /\ talk \in [talkers : TalkerLists, lines : { <<>> }]
    /\ pc = "loading"
    /\ result = None
    /\ again = None
    /\ endless = None
    /\ id_to_nodeidx = EmptyMap
    /\ last = None

\* The script's author appends one more line to the document.
AddLine ==
    /\ pc = "loading"
    /\ \/ /\ FullFamily(talk) /\ Len(talk.lines) < MaxLines
          /\ \E shape \in FullShapes : talk' = Extended(talk, shape)
       \/ /\ PlainFamily(talk) /\ Len(talk.lines) < MaxPlainLines
          /\ \E shape \in PlainShapes : talk' = Extended(talk, shape)
       \/ /\ BranchFamily(talk) /\ Len(talk.lines) < MaxLines
          /\ \E shape \in BranchShapes : talk' = Extended(talk, shape)
       \/ /\ EndFamily(talk) /\ Len(talk.lines) < MaxLines
          /\ \E shape \in EndShapes : talk' = Extended(talk, shape)
    /\ UNCHANGED << pc, result, again, endless, id_to_nodeidx, last >>

Compile ==
    /\ pc = "loading"
    /\ \E order \in EdgeOrders(talk) :
          /\ result' = New(talk, order)
          /\ pc' = IF IsOk(New(talk, order)) THEN "compiled" ELSE "failed"
          /\ id_to_nodeidx' = IF IsOk(New(talk, order)) THEN IdTable(talk) ELSE EmptyMap
    /\ UNCHANGED << talk, again, endless, last >>

\* Conversation::new is called once more on the same RawTalk.
Recompile ==
    /\ pc \in { "compiled", "failed" }
    /\ again = None
    /\ endless = None
    /\ last = None
    /\ \E order \in EdgeOrders(talk) : again' = Some(New(talk, order))
    /\ UNCHANGED << talk, pc, result, endless, id_to_nodeidx, last >>

\* Conversation::new is called on a copy of the RawTalk that differs from it
\* in the `end` flags only (here: none is set).  The call builds its own id
\* map, which yields its values in an order of its own.
CompileWithoutEnd ==
    /\ pc \in { "compiled", "failed" }
    /\ again = None
    /\ endless = None
    /\ last = None
    /\ WithoutEnd(talk) # talk
    /\ \E order \in EdgeOrders(WithoutEnd(talk)) :
          endless' = Some(New(WithoutEnd(talk), order))
    /\ UNCHANGED << talk, pc, result, again, id_to_nodeidx, last >>

Advance ==
    /\ pc = "compiled"
    /\ again = None
    /\ endless = None
    /\ \E out \in advance(result[2]) :
          /\ result' = Ok(out[2])
          /\ last' = Some([req |-> << "advance" >>, res |-> out[1],
                           from |-> result[2].current])
    /\ UNCHANGED << talk, pc, again, endless, id_to_nodeidx >>

JumpTo ==
    /\ pc = "compiled"
    /\ again = None
    /\ endless = None
    /\ \E id \in TargetIds :
          LET out == jump_to(result[2], id_to_nodeidx, id)
          IN  /\ result' = Ok(out[2])
              /\ last' = Some([req |-> << "jump_to", id >>, res |-> out[1],
                               from |-> result[2].current])
    /\ UNCHANGED << talk, pc, again, endless, id_to_nodeidx >>

Next == AddLine \/ Compile \/ Recompile \/ CompileWithoutEnd \/ Advance \/ JumpTo

Spec == Init /\ [][Next]_vars

(***************************************************************************)
(* Vocabulary of the properties: what the script says, read off the input  *)
(* and not off the compiler's data.                                        *)
(***************************************************************************)
Lines == talk.lines
Ids == { Lines[k].id : k \in DOMAIN Lines }
TalkerNames == { talk.talkers[i].name : i \in DOMAIN talk.talkers }

Called == result # None
Convo == result[2]
Nodes == Convo.dialogue_graph.nodes
Edges == Convo.dialogue_graph.edges

TalkerMissing(k) ==
    Lines[k].talker # None /\ Lines[k].talker[1] \notin TalkerNames
Marked(k) == Lines[k].start = Some(TRUE)
Repeats(k) == \E j \in 1 .. (k - 1) : Lines[j].id = Lines[k].id
MarkedUpTo(k) == { i \in 1 .. k : Marked(i) }

DanglingNext(k) == Lines[k].next # None /\ Lines[k].next[1] \notin Ids
DanglingChoices(k) ==
    IF Lines[k].choices = None THEN {}
    ELSE { Lines[k].choices[1][c].next : c \in DOMAIN Lines[k].choices[1] } \ Ids

\* No check of the node phase rejects the script.
PassesNodePhase ==
    /\ Len(Lines) > 0
    /\ \A k \in DOMAIN Lines : ~TalkerMissing(k) /\ ~Repeats(k)
    /\ Cardinality(MarkedUpTo(Len(Lines))) = 1

\* The line a node was compiled from, and the node of the line with an id.
LineOfNode(idx) == Lines[idx + 1]
NodeOfId(id) == (CHOOSE k \in DOMAIN Lines : Lines[k].id = id) - 1

(***************************************************************************)
(* C1.  As claimed: whenever some line's `next`, or the `next` of one of   *)
(* its choices, is the id of no line, compile fails with                   *)
(* NextLineNotFound(id of a referencing line, the missing id).             *)
(***************************************************************************)
C1_DanglingLinkIsReported ==
    Called /\ (\E k \in DOMAIN Lines : DanglingNext(k) \/ DanglingChoices(k) # {})
    => \E k \in DOMAIN Lines :
          \/ DanglingNext(k)
             /\ result = Err(NextLineNotFound(Lines[k].id, Lines[k].next[1]))
          \/ \E m \in DanglingChoices(k) :
                result = Err(NextLineNotFound(Lines[k].id, m))

(***************************************************************************)
(* C1, amended.  For every script that passes the checks of the node phase *)
(* (non-empty, every named talker listed, ids pairwise distinct, exactly   *)
(* one line marked start): if some line's `next` is the id of no line, or  *)
(* some line without a `next` has a choice whose `next` is the id of no    *)
(* line, compile fails with NextLineNotFound(id of such a line, its        *)
(* missing id).                                                            *)
(***************************************************************************)
C1_DanglingLinkIsReportedAfterNodePhase ==
    /\ Called
    /\ PassesNodePhase
    /\ \E k \in DOMAIN Lines :
          DanglingNext(k) \/ (Lines[k].next = None /\ DanglingChoices(k) # {})
    => \E k \in DOMAIN Lines :
          \/ DanglingNext(k)
             /\ result = Err(NextLineNotFound(Lines[k].id, Lines[k].next[1]))
          \/ /\ Lines[k].next = None
             /\ \E m \in DanglingChoices(k) :
                   result = Err(NextLineNotFound(Lines[k].id, m))

\* A script with two lines passed the node phase and a choice of a line
\* without `next` was reported as pointing nowhere.
C1_Witness ==
    /\ Called
    /\ PassesNodePhase
    /\ Len(Lines) = 2
    /\ \E k \in DOMAIN Lines :
          /\ Lines[k].next = None
          /\ \E m \in DanglingChoices(k) :
                result = Err(NextLineNotFound(Lines[k].id, m))

(***************************************************************************)
(* C2.  Whenever compile succeeds, every `next` id and every choice's      *)
(* `next` id of every line is the id of some line, the choices of a line   *)
(* that also has a `next` and the choices stored in the nodes included.    *)
(***************************************************************************)
C2_LinksResolveOnSuccess ==
    Called /\ IsOk(result)
    => /\ \A k \in DOMAIN Lines : ~DanglingNext(k) /\ DanglingChoices(k) = {}
       /\ \A n \in DOMAIN Nodes :
             Nodes[n].choices # None
             => \A c \in DOMAIN Nodes[n].choices[1] :
                   Nodes[n].choices[1][c].next \in Ids

(***************************************************************************)
(* C3.  As claimed: whenever two or more lines share an id, compile fails  *)
(* with RepeatedId(a shared id).                                           *)
(***************************************************************************)
C3_SharedIdIsReported ==
    Called /\ (\E k \in DOMAIN Lines : Repeats(k))
    => \E k \in DOMAIN Lines : Repeats(k) /\ result = Err(RepeatedId(Lines[k].id))

\* The first line whose id is the id of an earlier line.
FirstRepeat == CHOOSE k \in DOMAIN Lines :
                  Repeats(k) /\ \A j \in 1 .. (k - 1) : ~Repeats(j)

(***************************************************************************)
(* C3, amended.  For every script in which two or more lines share an id:  *)
(* let r be the first line whose id is the id of an earlier line; if no    *)
(* line up to and including r names a talker that is not listed, and at    *)
(* most one line up to and including r is marked start, compile fails with *)
(* RepeatedId(r's id).                                                     *)
(***************************************************************************)
C3_FirstSharedIdIsReported ==
    /\ Called
    /\ \E k \in DOMAIN Lines : Repeats(k)
    /\ \A i \in 1 .. FirstRepeat : ~TalkerMissing(i)
    /\ Cardinality(MarkedUpTo(FirstRepeat)) <= 1
    => result = Err(RepeatedId(Lines[FirstRepeat].id))

\* RepeatedId was reported for the third line of a script, whose second line
\* names a listed talker and is the one marked start.
C3_Witness ==
    /\ Called
    /\ Len(Lines) = 3
    /\ FirstRepeat = 3
    /\ Marked(2) /\ Lines[2].talker # None
    /\ result = Err(RepeatedId(Lines[3].id))

(***************************************************************************)
(* C4.  As claimed: a non-empty script in which no line is marked start    *)
(* fails with NoStartingDialogue, and a script in which two or more lines  *)
(* are marked start fails with MultipleStartingDialogues.                  *)
(***************************************************************************)
C4_StartCountIsReported ==
    Called
    => /\ Len(Lines) > 0 /\ MarkedUpTo(Len(Lines)) = {}
          => result = Err(NoStartingDialogue)
       /\ Cardinality(MarkedUpTo(Len(Lines))) >= 2
          => result = Err(MultipleStartingDialogues)

\* The second line marked start.
SecondStart == CHOOSE k \in DOMAIN Lines :
                  Marked(k) /\ Cardinality(MarkedUpTo(k)) = 2

(***************************************************************************)
(* C4, amended.  A non-empty script in which no line is marked start,      *)
(* every named talker is listed and the ids are pairwise distinct fails    *)
(* with NoStartingDialogue.  A script in which two or more lines are       *)
(* marked start fails with MultipleStartingDialogues if, s being the       *)
(* second line marked start, no line up to and including s names a talker  *)
(* that is not listed and no line before s has the id of an earlier line.  *)
(***************************************************************************)
C4_StartCountIsReportedFirst ==
    Called
    => /\ /\ Len(Lines) > 0
          /\ MarkedUpTo(Len(Lines)) = {}
          /\ \A k \in DOMAIN Lines : ~TalkerMissing(k) /\ ~Repeats(k)
          => result = Err(NoStartingDialogue)
       /\ /\ Cardinality(MarkedUpTo(Len(Lines))) >= 2
          /\ \A i \in 1 .. SecondStart : ~TalkerMissing(i)
          /\ \A i \in 1 .. (SecondStart - 1) : ~Repeats(i)
          => result = Err(MultipleStartingDialogues)

\* MultipleStartingDialogues was reported for a script whose second start
\* line is its third line and has the id of an earlier line.
C4_Witness ==
    /\ Called
    /\ Len(Lines) = 3
    /\ Cardinality(MarkedUpTo(3)) = 2
    /\ Marked(3) /\ Repeats(3)
    /\ result = Err(MultipleStartingDialogues)

(***************************************************************************)
(* C5.  As claimed: whenever some line names a talker that is not listed,  *)
(* compile fails with TalkerNotFound(the id of such a line, its talker).   *)
(***************************************************************************)
C5_MissingTalkerIsReported ==
    Called /\ (\E k \in DOMAIN Lines : TalkerMissing(k))
    => \E k \in DOMAIN Lines :
          /\ TalkerMissing(k)
          /\ result = Err(TalkerNotFound(Lines[k].id, Lines[k].talker[1]))

\* The first line that names a talker that is not listed.
FirstMissing == CHOOSE k \in DOMAIN Lines :
                   TalkerMissing(k) /\ \A j \in 1 .. (k - 1) : ~TalkerMissing(j)

(***************************************************************************)
(* C5, amended.  For every script in which some line names a talker that   *)
(* is not listed: let t be the first such line; if at most one line before *)
(* t is marked start and no line before t has the id of an earlier line,   *)
(* compile fails with TalkerNotFound(t's id, t's talker).                  *)
(***************************************************************************)
C5_FirstMissingTalkerIsReported ==
    /\ Called
    /\ \E k \in DOMAIN Lines : TalkerMissing(k)
    /\ Cardinality(MarkedUpTo(FirstMissing - 1)) <= 1
    /\ \A i \in 1 .. (FirstMissing - 1) : ~Repeats(i)
    => result = Err(TalkerNotFound(Lines[FirstMissing].id,
                                   Lines[FirstMissing].talker[1]))

\* TalkerNotFound was reported for the third line of a script, a second
\* start line with the id of an earlier line; the talker list is not empty.
C5_Witness ==
    /\ Called
    /\ Len(Lines) = 3
    /\ Len(talk.talkers) > 0
    /\ \E k \in DOMAIN Lines : TalkerMissing(k)
    /\ FirstMissing = 3
    /\ Marked(3) /\ Repeats(3) /\ Cardinality(MarkedUpTo(3)) = 2
    /\ result = Err(TalkerNotFound(Lines[3].id, Lines[3].talker[1]))

(***************************************************************************)
(* C6.  Two compilations of the same script return the same outcome: the   *)
(* same error with the same arguments, or the same nodes, edges and        *)
(* cursor.                                                                 *)
(***************************************************************************)
EdgeCount(edges, e) == Cardinality({ k \in DOMAIN edges : edges[k] = e })

SameOutcome(r1, r2) ==
    IF IsErr(r1) \/ IsErr(r2) THEN r1 = r2
    ELSE /\ r1[2].dialogue_graph.nodes = r2[2].dialogue_graph.nodes
         /\ r1[2].current = r2[2].current
         /\ LET e1 == r1[2].dialogue_graph.edges
                e2 == r2[2].dialogue_graph.edges
            IN  /\ Len(e1) = Len(e2)
                /\ \A k \in DOMAIN e1 : EdgeCount(e1, e1[k]) = EdgeCount(e2, e1[k])

C6_CompileIsDeterministic ==
    again # None => SameOutcome(result, again[1])

(***************************************************************************)
(* C7.  Whenever compile succeeds, and before any traversal request, the   *)
(* cursor is the node created for the one line marked start, wherever it   *)
(* sits in the line list, and current_text() is that line's text.          *)
(***************************************************************************)
C7_CursorStartsAtStartLine ==
    Called /\ IsOk(result) /\ last = None
    => \E k \in DOMAIN Lines :
          /\ Marked(k)
          /\ \A j \in DOMAIN Lines : Marked(j) => j = k
          /\ Convo.current = k - 1
          /\ current_text(Convo) = Lines[k].text

\* A script compiled whose start line is its last line, not its first.
C7_Witness ==
    /\ Called /\ IsOk(result) /\ last = None
    /\ Len(Lines) >= 2
    /\ Marked(Len(Lines))
    /\ current_text(Convo) = Lines[Len(Lines)].text

(***************************************************************************)
(* C8.  In every state reached from a compiled Conversation by advance and *)
(* jump_to requests, failed ones included, `current` is the index of a     *)
(* node of the graph.                                                      *)
(***************************************************************************)
C8_CursorIsValid ==
    Called /\ IsOk(result) => Convo.current \in 0 .. (Len(Nodes) - 1)

\* The cursor was moved off the start line, after which a jump to an id
\* of no line failed.
C8_Witness ==
    /\ Called /\ IsOk(result)
    /\ last # None
    /\ last[1].req[1] = "jump_to"
    /\ IsErr(last[1].res)
    /\ ~Marked(Convo.current + 1)
    /\ Convo.current \in 0 .. (Len(Nodes) - 1)

(***************************************************************************)
(* C9.  If the current node was compiled from a line with a `next` id n    *)
(* and no choices, advance() succeeds and afterwards the cursor is the     *)
(* node of line n and current_text() is line n's text; when n is the       *)
(* line's own id the cursor stays on the node.                             *)
(***************************************************************************)
C9_AdvanceFollowsNext ==
    /\ Called /\ IsOk(result)
    /\ last # None
    /\ last[1].req = << "advance" >>
    /\ LineOfNode(last[1].from).next # None
    /\ LineOfNode(last[1].from).choices = None
    => LET n == LineOfNode(last[1].from).next[1]
       IN  /\ IsOk(last[1].res)
           /\ Convo.current = NodeOfId(n)
           /\ current_text(Convo) = Lines[NodeOfId(n) + 1].text
           /\ n = LineOfNode(last[1].from).id => Convo.current = last[1].from

\* advance() moved the cursor from the second line of a script to its first.
C9_Witness ==
    /\ Called /\ IsOk(result)
    /\ last # None
    /\ last[1].req = << "advance" >>
    /\ IsOk(last[1].res)
    /\ last[1].from = 1
    /\ Convo.current = 0
    /\ LineOfNode(1).choices = None

(***************************************************************************)
(* C10.  Whenever the current node is a choice node, i.e. its line has     *)
(* choices, with or without a `next`, advance() fails with                 *)
(* ChoicesNotHandled and leaves the cursor where it was; the cursor leaves *)
(* a choice node only through jump_to.                                     *)
(***************************************************************************)
C10_AdvanceRefusesChoiceNode ==
    /\ Called /\ IsOk(result)
    /\ last # None
    /\ LineOfNode(last[1].from).choices # None
    => /\ last[1].req = << "advance" >>
          => last[1].res = Err(ChoicesNotHandled) /\ Convo.current = last[1].from
       /\ Convo.current # last[1].from => last[1].req[1] = "jump_to"

\* advance() was refused on a line that has choices and also a `next` to
\* another line.
C10_Witness ==
    /\ Called /\ IsOk(result)
    /\ last # None
    /\ last[1].req = << "advance" >>
    /\ last[1].res = Err(ChoicesNotHandled)
    /\ LineOfNode(last[1].from).next # None
    /\ LineOfNode(last[1].from).next[1] # LineOfNode(last[1].from).id
    /\ LineOfNode(last[1].from).choices # None

(***************************************************************************)
(* C11.  Once the cursor is on a node whose line has neither `next` nor    *)
(* choices, every advance() fails with NoNextAction and leaves the cursor, *)
(* the graph and current_text() as they were; it does so again on every    *)
(* later call, until a jump_to moves the cursor.  Every step that records  *)
(* an advance request is a step of Advance.                                *)
(***************************************************************************)
OnTerminalLine == pc = "compiled" /\ IsPlain(LineOfNode(Convo.current))

C11_TerminalNodeRefusesAdvance ==
    [][ (OnTerminalLine /\ last' # None /\ last'[1].req = << "advance" >>)
          => /\ last'[1].res = Err(NoNextAction)
             /\ result' = result
             /\ current_text(result'[2]) = current_text(result[2])
             /\ IsPlain(Lines'[result'[2].current + 1]) ]_vars

\* advance() has failed with NoNextAction on a terminal line that is not the
\* start line: the cursor was moved there before.
C11_Witness ==
    /\ OnTerminalLine
    /\ last # None
    /\ last[1].req = << "advance" >>
    /\ last[1].res = Err(NoNextAction)
    /\ last[1].from = Convo.current
    /\ ~Marked(Convo.current + 1)

(***************************************************************************)
(* C12.  For every line id i of the compiled script and whatever the       *)
(* current node, jump_to(i) succeeds and puts the cursor on the node       *)
(* compiled from the line whose id is i, be i a target of the current      *)
(* node's `next` or choices or not.                                        *)
(***************************************************************************)
JumpedTo(id) ==
    last # None /\ last[1].req[1] = "jump_to" /\ last[1].req[2] = id

C12_JumpToResolvesLineIds ==
    \A id \in Ids :
        JumpedTo(id) => last[1].res = Ok(<<>>) /\ Convo.current = NodeOfId(id)

\* A jump from a line without links to a line whose id is neither its node
\* index nor its position in the list.
C12_Witness ==
    \E id \in Ids :
        /\ JumpedTo(id)
        /\ last[1].res = Ok(<<>>)
        /\ IsPlain(LineOfNode(last[1].from))
        /\ Convo.current # last[1].from
        /\ Convo.current # id
        /\ Convo.current + 1 # id

(***************************************************************************)
(* C13.  For every id that is the id of no line, jump_to(id) fails with    *)
(* WrongJump(id); and every advance() or jump_to() that fails leaves the   *)
(* Conversation, cursor and graph and id table, as it was before the call. *)
(***************************************************************************)
C13_FailedRequestChangesNothing ==
    [][ (pc = "compiled" /\ last' # None)
          => /\ (last'[1].req[1] = "jump_to" /\ last'[1].req[2] \notin Ids)
                   => last'[1].res = Err(WrongJump(last'[1].req[2]))
             /\ IsErr(last'[1].res)
                   => result' = result /\ id_to_nodeidx' = id_to_nodeidx ]_vars

\* jump_to has failed with WrongJump on a cursor that an earlier request had
\* moved off the start line; the cursor is where it was.
C13_Witness ==
    /\ last # None
    /\ last[1].req[1] = "jump_to"
    /\ last[1].req[2] \notin Ids
    /\ last[1].res = Err(WrongJump(last[1].req[2]))
    /\ Convo.current = last[1].from
    /\ ~Marked(Convo.current + 1)

(***************************************************************************)
(* C14.  On success the graph has one node per line, and as many edges as  *)
(* there are lines with a `next` plus, over the lines without a `next`,    *)
(* the sum of the lengths of their choice lists.  Line by line: a line     *)
(* with a `next` has one edge leaving its node (a loop at the node if the  *)
(* `next` is the line's own id), a line without `next` one per choice, a   *)
(* line with neither none.                                                 *)
(***************************************************************************)
EdgesOfLine(k) == IF Lines[k].next # None THEN 1 ELSE ChoiceCount(Lines[k])

RECURSIVE EdgesOfLines(_)
EdgesOfLines(k) == IF k = 0 THEN 0 ELSE EdgesOfLines(k - 1) + EdgesOfLine(k)

EdgesFrom(idx) == Cardinality({ j \in DOMAIN Edges : Edges[j][1] = idx })

C14_NodeAndEdgeCounts ==
    (Called /\ IsOk(result)) =>
        /\ Len(Nodes) = Len(Lines)
        /\ Len(Edges) = EdgesOfLines(Len(Lines))
        /\ \A k \in DOMAIN Lines :
              /\ EdgesFrom(k - 1) = EdgesOfLine(k)
              /\ Lines[k].next = Some(Lines[k].id) => EdgeCount(Edges, << k - 1, k - 1 >>) = 1

\* A compiled script of a line with two choices and a line whose `next` is
\* its own id: two nodes, three edges.
C14_Witness ==
    /\ Called /\ IsOk(result)
    /\ \E k \in DOMAIN Lines : Lines[k].next = None /\ ChoiceCount(Lines[k]) = 2
    /\ \E k \in DOMAIN Lines : Lines[k].next = Some(Lines[k].id)
    /\ Len(Nodes) = 2
    /\ Len(Edges) = 3

(***************************************************************************)
(* C15.  Every script whose line list is empty fails to compile with       *)
(* NoLines, whatever its talker list holds.                                *)
(***************************************************************************)
C15_EmptyScriptIsNoLines ==
    (Called /\ Len(Lines) = 0) => result = Err(NoLines)

\* A script with talkers and no line was compiled and refused with NoLines.
C15_Witness ==
    /\ Called
    /\ Len(Lines) = 0
    /\ Len(talk.talkers) > 0
    /\ result = Err(NoLines)
    /\ pc = "failed"

(***************************************************************************)
(* C16.  As claimed: on success, for every line with choices and no        *)
(* `next`, each choice's edge runs from the line's node to the node of the *)
(* choice's target, so that the targets of the edges leaving the node are  *)
(* exactly the nodes of the lines its choices name.  The source adds each  *)
(* choice's edge from the node to itself, and the statement fails.         *)
(***************************************************************************)
ChoiceTargetNodes(k) ==
    { NodeOfId(Lines[k].choices[1][c].next) : c \in DOMAIN Lines[k].choices[1] }

EdgeTargetsFrom(idx) == { Edges[j][2] : j \in { i \in DOMAIN Edges : Edges[i][1] = idx } }

C16_ChoiceEdgesReachTargets ==
    (Called /\ IsOk(result)) =>
        \A k \in DOMAIN Lines :
            (Lines[k].next = None /\ Lines[k].choices # None)
                => EdgeTargetsFrom(k - 1) = ChoiceTargetNodes(k)

(***************************************************************************)
(* C17.  A script with several defects gets one error, by fixed            *)
(* precedence: NoLines for an empty line list; else the error of the       *)
(* earliest line, in list order, that names an unknown talker, is a second *)
(* line marked start, or repeats an id, and on that line TalkerNotFound    *)
(* before MultipleStartingDialogues before RepeatedId; else                *)
(* NoStartingDialogue if no line is marked start; and NextLineNotFound     *)
(* only if none of these applies.                                          *)
(***************************************************************************)
ExtraStart(k) == Marked(k) /\ MarkedUpTo(k - 1) # {}
Defect(k) == TalkerMissing(k) \/ ExtraStart(k) \/ Repeats(k)

LineError(k) ==
    IF TalkerMissing(k) THEN TalkerNotFound(Lines[k].id, Lines[k].talker[1])
    ELSE IF ExtraStart(k) THEN MultipleStartingDialogues
    ELSE RepeatedId(Lines[k].id)

\* Some(the error that has precedence among those before the edge phase)
ExpectedEarlyError ==
    IF Len(Lines) = 0 THEN Some(NoLines)
    ELSE IF \E k \in DOMAIN Lines : Defect(k)
    THEN Some(LineError(CHOOSE k \in DOMAIN Lines :
                            Defect(k) /\ \A j \in 1 .. (k - 1) : ~Defect(j)))
    ELSE IF MarkedUpTo(Len(Lines)) = {} THEN Some(NoStartingDialogue)
    ELSE None

C17_ErrorPrecedence ==
    Called =>
        IF ExpectedEarlyError # None THEN result = Err(ExpectedEarlyError[1])
        ELSE IsOk(result) \/ result[2][1] = "NextLineNotFound"

\* One line names an unknown talker, is a second start line and repeats an
\* id, some `next` dangles as well: TalkerNotFound is the error.
C17_Witness ==
    /\ Called
    /\ \E k \in DOMAIN Lines : TalkerMissing(k) /\ ExtraStart(k) /\ Repeats(k)
    /\ \E k \in DOMAIN Lines : DanglingNext(k)
    /\ IsErr(result)
    /\ result[2][1] = "TalkerNotFound"

(***************************************************************************)
(* C18.  compile rejects no valid script: a script with at least one line, *)
(* pairwise distinct ids, exactly one line with start: true, every named   *)
(* talker in the talker list, and every `next` and every choice's `next`   *)
(* the id of a line, compiles - loops, cycles, unreachable lines, lines    *)
(* without links, talker names listed twice and start: false included.     *)
(***************************************************************************)
ValidScript ==
    /\ Len(Lines) > 0
    /\ \A j, k \in DOMAIN Lines : Lines[j].id = Lines[k].id => j = k
    /\ Cardinality({ k \in DOMAIN Lines : Lines[k].start = Some(TRUE) }) = 1
    /\ \A k \in DOMAIN Lines :
          /\ Lines[k].talker # None => Lines[k].talker[1] \in TalkerNames
          /\ Lines[k].next # None => Lines[k].next[1] \in Ids
          /\ Lines[k].choices # None =>
                \A c \in DOMAIN Lines[k].choices[1] : Lines[k].choices[1][c].next \in Ids

C18_ValidScriptCompiles ==
    (Called /\ ValidScript) => IsOk(result)

\* A valid script was compiled whose talker list names its talker twice, and
\* whose lines are a line with start: false that no line leads to and whose
\* `next` is its own id, and a start line without links.
C18_Witness ==
    /\ Called /\ ValidScript /\ IsOk(result)
    /\ \E i, j \in DOMAIN talk.talkers : i # j /\ talk.talkers[i].name = talk.talkers[j].name
    /\ \E k \in DOMAIN Lines :
          /\ Lines[k].talker # None
          /\ Lines[k].start = Some(FALSE)
          /\ Lines[k].next = Some(Lines[k].id)
    /\ \E k \in DOMAIN Lines : Marked(k) /\ IsPlain(Lines[k])

(***************************************************************************)
(* C19.  As claimed: the `end` flag of a line has no effect on             *)
(* compilation: a script and the script that differs from it in `end`      *)
(* flags only have the same outcome, the same error or the same nodes,     *)
(* edges and cursor; and a line with end: true that has a `next` or        *)
(* choices still gets its edges.  Each of the two calls iterates an id map *)
(* of its own; when two lines have a link to no line the calls can report  *)
(* different errors (see C6), and the statement fails.                     *)
(***************************************************************************)
C19_EndFlagHasNoEffect ==
    /\ endless # None => SameOutcome(result, endless[1])
    /\ (Called /\ IsOk(result)) =>
          \A k \in DOMAIN Lines :
              Lines[k].end = Some(TRUE) => EdgesFrom(k - 1) = EdgesOfLine(k)

====
